---- MODULE Spec2Model ----
(***************************************************************************)
(* SPMD control-flow legality analysis of cmd/compile/internal/types2.     *)
(*                                                                         *)
(* The model is the statement walker of the type checker, restricted to    *)
(* the state the SPMD extension reads and writes: the stmtContext flags    *)
(* handed down the recursion (ctxt), the package-level SPMDControlFlowInfo *)
(* (globalSPMDInfo), and the recursion stack of open statements.  The      *)
(* walked program is chosen on the fly: every step visits the next         *)
(* statement in source order, or leaves the innermost open statement.      *)
(***************************************************************************)
EXTENDS Integers, Sequences, FiniteSets, TLC

\* Bound on the number of simultaneously open (nested) statements.
MaxNest == 4

\* GOEXPERIMENT=spmd is enabled in every build this model describes.
ExperimentSPMD == TRUE

VARIABLES ctxt, globalSPMDInfo, stack, pending, last, args, result, checkers, observed

vars == <<ctxt, globalSPMDInfo, stack, pending, last, args, result, checkers, observed>>

\* args and result hold one call of a type-level function of the checker
\* (assignability, capacity, signature validation); the statement walker
\* leaves them alone.
callVars == <<args, result>>

\* State of the checkers that run concurrently on one globalSPMDInfo
checkerVars == <<checkers, observed>>

NoCall == [fn |-> "none"]

----------------------------------------------------------------------------
\* stmtContext flags

breakOk == "breakOk"

continueOk == "continueOk"

inSPMDFor == "inSPMDFor"

StmtContexts == SUBSET {breakOk, continueOk, inSPMDFor}

\* SPMDControlFlowInfo, and its Go zero value (the initial value of the
\* package-level variable).
SPMDControlFlowInfo == [inSPMDLoop : BOOLEAN, varyingDepth : 0..(MaxNest + 1), maskAltered : BOOLEAN, hasVaryingParams : BOOLEAN]

ZeroSPMDInfo == [inSPMDLoop |-> FALSE, varyingDepth |-> 0, maskAltered |-> FALSE, hasVaryingParams |-> FALSE]

\* No checker runs concurrently.
NoObserved == [checker |-> 0, stmt |-> "none", got |-> "none", gotMsg |-> "none", alone |-> "none", aloneMsg |-> "none"]

CheckersIdle ==
    /\ checkers = <<>>
    /\ observed = NoObserved

----------------------------------------------------------------------------
\* Diagnostics (error code and message variant)

NoDiag == [code |-> "none", msg |-> "none"]

MsgUnderVarying == "not allowed under varying conditions in SPMD for loop"

MsgAfterContinue == "not allowed after continue in varying context in SPMD for loop"

MsgGoto == "goto statements not supported in SPMD context"

MsgSelect == "select statements not supported in SPMD context"

MsgNested == "nested go for loop (prohibited for now)"

Diag(code, msg) == [code |-> code, msg |-> msg]

----------------------------------------------------------------------------
\* Statements as the handler sees them: the syntax node kind, the token of
\* a BranchStmt, the IsSpmd bit of a ForStmt, and for a LabeledStmt the
\* node kind of the statement the label is attached to.

Stmt(node, tok, spmd, inner) == [node |-> node, tok |-> tok, IsSpmd |-> spmd, inner |-> inner]

LeafStmts == {Stmt("BranchStmt", "Break", FALSE, "none"), Stmt("BranchStmt", "Continue", FALSE, "none"), Stmt("BranchStmt", "Goto", FALSE, "none"), Stmt("ReturnStmt", "none", FALSE, "none"), Stmt("SelectStmt", "none", FALSE, "none"), Stmt("ExprStmt", "none", FALSE, "none")}

\* Statements a label can be attached to.  A type switch is a SwitchStmt
\* node; a `go for` is a ForStmt node.
LabelTargets == {"ForStmt", "GoForStmt", "SwitchStmt", "TypeSwitchStmt", "ExprStmt", "BlockStmt", "SelectStmt"}

IsForNode(inner) == inner \in {"ForStmt", "GoForStmt"}

IsSwitchNode(inner) == inner \in {"SwitchStmt", "TypeSwitchStmt"}

----------------------------------------------------------------------------
\* validateSPMDBranch: only `break` is restricted; the mask-alteration
\* message takes precedence over the varying-condition one.

validateSPMDBranch_maskIgnored(tok, info) ==
    IF tok = "Break" /\ info.varyingDepth > 0
    THEN Diag("InvalidSPMDBreak", MsgUnderVarying)
    ELSE NoDiag

validateSPMDBranch_varyingFirst(tok, info) ==
    IF tok = "Break" /\ (info.varyingDepth > 0 \/ info.maskAltered)
    THEN IF info.varyingDepth > 0
         THEN Diag("InvalidSPMDBreak", MsgUnderVarying)
         ELSE Diag("InvalidSPMDBreak", MsgAfterContinue)
    ELSE NoDiag

validateSPMDBranch(tok, info) ==
    IF tok = "Break" /\ (info.varyingDepth > 0 \/ info.maskAltered)
    THEN IF info.maskAltered
         THEN Diag("InvalidSPMDBreak", MsgAfterContinue)
         ELSE Diag("InvalidSPMDBreak", MsgUnderVarying)
    ELSE NoDiag

\* validateSPMDReturn

validateSPMDReturn_maskIgnored(c, info) ==
    IF inSPMDFor \in c /\ info.varyingDepth > 0
    THEN Diag("InvalidSPMDReturn", MsgUnderVarying)
    ELSE NoDiag

validateSPMDReturn(c, info) ==
    IF inSPMDFor \in c /\ (info.varyingDepth > 0 \/ info.maskAltered)
    THEN IF info.maskAltered
         THEN Diag("InvalidSPMDReturn", MsgAfterContinue)
         ELSE Diag("InvalidSPMDReturn", MsgUnderVarying)
    ELSE NoDiag

----------------------------------------------------------------------------
\* handleSPMDStatement.  The result says whether the statement was handled
\* here (TRUE: the ordinary statement code is skipped), which diagnostic was
\* reported, the new value of globalSPMDInfo, and which SPMD statement
\* routine, if any, the handler dispatched to.

Handled(d, info, call) == [handled |-> TRUE, diag |-> d, info |-> info, call |-> call]

NotHandled(info) == [handled |-> FALSE, diag |-> NoDiag, info |-> info, call |-> "none"]

\* case *syntax.ForStmt
handleSPMDStatement_ForStmt(s, c, info) ==
    IF s.IsSpmd THEN Handled(NoDiag, info, "spmdForStmt")
    ELSE NotHandled(info)

\* case *syntax.BranchStmt
handleSPMDStatement_BranchStmt_continueRestricted(s, c, info) ==
    IF inSPMDFor \in c
    THEN IF s.tok = "Goto"
         THEN Handled(Diag("InvalidSPMDGoto", MsgGoto), info, "none")
         ELSE IF s.tok = "Break" /\ breakOk \in c
         THEN NotHandled(info)
         ELSE Handled(validateSPMDBranch("Break", info),
                      IF s.tok = "Continue" /\ info.varyingDepth > 0
                      THEN [info EXCEPT !.maskAltered = TRUE] ELSE info, "none")
    ELSE NotHandled(info)

handleSPMDStatement_BranchStmt_continueAlwaysAlters(s, c, info) ==
    IF inSPMDFor \in c
    THEN IF s.tok = "Goto"
         THEN Handled(Diag("InvalidSPMDGoto", MsgGoto), info, "none")
         ELSE IF s.tok = "Continue"
         THEN NotHandled([info EXCEPT !.maskAltered = TRUE])
         ELSE IF s.tok = "Break" /\ breakOk \in c
         THEN NotHandled(info)
         ELSE Handled(validateSPMDBranch(s.tok, info), info, "none")
    ELSE NotHandled(info)

handleSPMDStatement_BranchStmt_gotoUnderVaryingOnly(s, c, info) ==
    IF inSPMDFor \in c
    THEN IF s.tok = "Goto" /\ info.varyingDepth > 0
         THEN Handled(Diag("InvalidSPMDGoto", MsgGoto), info, "none")
         ELSE IF s.tok = "Continue"
         THEN NotHandled(IF info.varyingDepth > 0
                         THEN [info EXCEPT !.maskAltered = TRUE]
                         ELSE info)
         ELSE IF s.tok = "Break" /\ breakOk \in c
         THEN NotHandled(info)
         ELSE Handled(validateSPMDBranch(s.tok, info), info, "none")
    ELSE NotHandled(info)

handleSPMDStatement_BranchStmt(s, c, info) ==
    IF inSPMDFor \in c
    THEN IF s.tok = "Goto"
         THEN Handled(Diag("InvalidSPMDGoto", MsgGoto), info, "none")
         ELSE IF s.tok = "Continue"
         THEN NotHandled(IF info.varyingDepth > 0
                         THEN [info EXCEPT !.maskAltered = TRUE]
                         ELSE info)
         ELSE IF s.tok = "Break" /\ breakOk \in c
         THEN NotHandled(info)
         ELSE Handled(validateSPMDBranch(s.tok, info), info, "none")
    ELSE NotHandled(info)

\* case *syntax.IfStmt
handleSPMDStatement_IfStmt(s, c, info) ==
    IF inSPMDFor \in c THEN Handled(NoDiag, info, "spmdIfStmt")
    ELSE NotHandled(info)

\* case *syntax.ReturnStmt
handleSPMDStatement_ReturnStmt(s, c, info) ==
    IF inSPMDFor \in c
    THEN Handled(validateSPMDReturn(c, info), info, "none")
    ELSE NotHandled(info)

\* case *syntax.SwitchStmt
handleSPMDStatement_SwitchStmt(s, c, info) ==
    IF inSPMDFor \in c THEN Handled(NoDiag, info, "spmdSwitchStmt")
    ELSE NotHandled(info)

\* case *syntax.SelectStmt
handleSPMDStatement_SelectStmt_anywhere(s, c, info) ==
    Handled(Diag("InvalidSPMDSelect", MsgSelect), info, "none")

handleSPMDStatement_SelectStmt(s, c, info) ==
    IF inSPMDFor \in c
    THEN Handled(Diag("InvalidSPMDSelect", MsgSelect), info, "none")
    ELSE NotHandled(info)

\* case *syntax.LabeledStmt
handleSPMDStatement_LabeledStmt(s, c, info) ==
    IF inSPMDFor \in c /\ ~IsForNode(s.inner) /\ ~IsSwitchNode(s.inner)
    THEN Handled(Diag("InvalidSPMDGoto", MsgGoto), info, "none")
    ELSE NotHandled(info)

handleSPMDStatement(s, c, info) ==
    IF ~ExperimentSPMD THEN NotHandled(info)
    ELSE CASE s.node = "ForStmt" -> handleSPMDStatement_ForStmt(s, c, info)
           [] s.node = "BranchStmt" -> handleSPMDStatement_BranchStmt(s, c, info)
           [] s.node = "IfStmt" -> handleSPMDStatement_IfStmt(s, c, info)
           [] s.node = "ReturnStmt" -> handleSPMDStatement_ReturnStmt(s, c, info)
           [] s.node = "SwitchStmt" -> handleSPMDStatement_SwitchStmt(s, c, info)
           [] s.node = "SelectStmt" -> handleSPMDStatement_SelectStmt(s, c, info)
           [] s.node = "LabeledStmt" -> handleSPMDStatement_LabeledStmt(s, c, info)
           [] OTHER -> NotHandled(info)

----------------------------------------------------------------------------
\* spmdForStmt: the nesting check, and the state installed for the body.

spmdForStmt_nestedUnderVaryingOnly(c, info) ==
    IF inSPMDFor \in c /\ info.varyingDepth > 0
    THEN [entered |-> FALSE, diag |-> Diag("InvalidNestedSPMDFor", MsgNested), inner |-> c, info |-> info]
    ELSE [entered |-> TRUE, diag |-> NoDiag, inner |-> c \cup {continueOk, inSPMDFor},
          info |-> [inSPMDLoop |-> TRUE, varyingDepth |-> 0, maskAltered |-> FALSE,
                    hasVaryingParams |-> info.hasVaryingParams]]

spmdForStmt(c, info) ==
    IF inSPMDFor \in c
    THEN [entered |-> FALSE, diag |-> Diag("InvalidNestedSPMDFor", MsgNested), inner |-> c, info |-> info]
    ELSE [entered |-> TRUE, diag |-> NoDiag, inner |-> c \cup {continueOk, inSPMDFor},
          info |-> [inSPMDLoop |-> TRUE, varyingDepth |-> 0, maskAltered |-> FALSE,
                    hasVaryingParams |-> info.hasVaryingParams]]

\* The deferred restore of spmdForStmt.
spmdForStmt_defer_keepsState(oldSPMDInfo, info) == info

spmdForStmt_defer(oldSPMDInfo, info) == oldSPMDInfo

\* spmdIfStmt: depth tracking and the context handed to both branches.
\* cond is the classification of the type-checked condition.
\* "reduction" is a condition that calls reduce.All, reduce.Any or compares
\* reduce.Count on a varying value: its type is uniform bool.
Conds == {"uniform", "varying", "invalid", "reduction"}

spmdIfStmt_reductionVarying(cond, c, info) ==
    LET isVaryingCondition == cond \in {"varying", "reduction"}
        info1 == IF isVaryingCondition
                 THEN [info EXCEPT !.varyingDepth = @ + 1]
                 ELSE info
    IN  [inc |-> isVaryingCondition,
         info |-> info1,
         inner |-> IF info1.varyingDepth > 0 \/ info1.maskAltered
                   THEN c \ {breakOk} ELSE c]

spmdIfStmt(cond, c, info) ==
    LET isVaryingCondition == cond = "varying"
        info1 == IF isVaryingCondition
                 THEN [info EXCEPT !.varyingDepth = @ + 1]
                 ELSE info
    IN  [inc |-> isVaryingCondition,
         info |-> info1,
         inner |-> IF info1.varyingDepth > 0 \/ info1.maskAltered
                   THEN c \ {breakOk} ELSE c]

\* The deferred decrement of spmdIfStmt.
spmdIfStmt_defer(inc, info) ==
    IF inc THEN [info EXCEPT !.varyingDepth = @ - 1] ELSE info

\* spmdSwitchStmt, expression switch.  A missing tag is the constant true.
Tags == {"none", "uniform", "varying", "invalid"}

spmdSwitchStmt(tag, c, info) ==
    LET isVaryingSwitch == tag = "varying"
    IN  [originalVaryingDepth |-> info.varyingDepth,
         info |-> IF isVaryingSwitch
                  THEN [info EXCEPT !.varyingDepth = @ + 1]
                  ELSE info,
         inner |-> c]

\* The deferred restore of spmdSwitchStmt.
spmdSwitchStmt_defer_zero(originalVaryingDepth, info) ==
    [info EXCEPT !.varyingDepth = 0]

spmdSwitchStmt_defer(originalVaryingDepth, info) ==
    [info EXCEPT !.varyingDepth = originalVaryingDepth]

\* The ordinary for statement adds break and continue permission for its
\* body and keeps every other context flag.
forStmtInner(c) == c \cup {breakOk, continueOk}

----------------------------------------------------------------------------
\* The SPMD type model

UniformQualifier == "uniform"

VaryingQualifier == "varying"

\* Element types of the universe: three numeric basic types, string, bool,
\* a byte slice and the empty interface.
ElemNames == {"int32", "int64", "byte", "string", "bool", "[]byte", "interface{}"}

\* A type that is not an *SPMDType.
Regular(name) == [spmd |-> FALSE, qualifier |-> "none", constraint |-> -1, elem |-> name]

\* SPMDType{qualifier, constraint, elem}: constraint -1 is none, 0 is
\* universal, N > 0 is N lanes.
SPMDType(q, c, name) == [spmd |-> TRUE, qualifier |-> q, constraint |-> c, elem |-> name]

NewUniform(name) == SPMDType(UniformQualifier, -1, name)

NewVarying(name) == SPMDType(VaryingQualifier, -1, name)

NewVaryingConstrained(name, c) == SPMDType(VaryingQualifier, c, name)

\* The elem field of an SPMD type, as a type.
Elem(t) == Regular(t.elem)

IsUniform(t) == t.qualifier = UniformQualifier

IsVarying(t) == t.qualifier = VaryingQualifier

IsConstrained(t) == t.constraint >= 0

UnderlyingType(t) == IF t.spmd THEN Elem(t) ELSE t

\* Lane constraints of the universe
Constraints == {-1, 0, 4, 8}

Types ==
    {Regular(n) : n \in ElemNames}
      \cup {NewUniform(n) : n \in ElemNames}
      \cup {NewVaryingConstrained(n, c) : n \in ElemNames, c \in Constraints}

\* Predicates of the ordinary type checker on the element types.
isNumeric(t) == ~t.spmd /\ t.elem \in {"int32", "int64", "byte"}

isInteger(t) == ~t.spmd /\ t.elem \in {"int32", "int64", "byte"}

isString(t) == ~t.spmd /\ t.elem = "string"

isByte(t) == ~t.spmd /\ t.elem = "byte"

isEmptyInterface(T) == ~T.spmd /\ T.elem = "interface{}"

\* handleSPMDTypeIdentical: the hook of the type comparer.
handleSPMDTypeIdentical(x, y) ==
    IF x.spmd /\ y.spmd
    THEN [handled |-> TRUE, identical |-> x.qualifier = y.qualifier /\ x.constraint = y.constraint /\ x.elem = y.elem]
    ELSE IF x.spmd \/ y.spmd
         THEN [handled |-> TRUE, identical |-> FALSE]
         ELSE [handled |-> FALSE, identical |-> FALSE]

\* Identical of the ordinary type checker: the hook first, then structural
\* equality of the ordinary types.
Identical(x, y) ==
    LET r == handleSPMDTypeIdentical(x, y)
    IN  IF r.handled THEN r.identical ELSE x.elem = y.elem

\* ConvertibleTo of the ordinary type checker on the element types of the
\* universe: identical types, numeric to numeric, integer to string, string
\* to and from a byte slice, and every type to the empty interface.
ConvertibleTo(V, T) ==
    /\ ~V.spmd
    /\ ~T.spmd
    /\ \/ V.elem = T.elem
       \/ isNumeric(V) /\ isNumeric(T)
       \/ isInteger(V) /\ isString(T)
       \/ isString(V) /\ T.elem = "[]byte"
       \/ V.elem = "[]byte" /\ isString(T)
       \/ isEmptyInterface(T)

convertibleToSPMDElement(sourceElem, targetElem) == ConvertibleTo(sourceElem, targetElem)

----------------------------------------------------------------------------
\* The walker

\* varying says whether the condition of an if, or the tag of a switch, has
\* a varying type.
Frame(kind, c, old, orig, inc) == [kind |-> kind, ctxt |-> c, old |-> old, orig |-> orig, inc |-> inc, branch |-> "body", varying |-> FALSE]

Top == stack[Len(stack)]

Pop == SubSeq(stack, 1, Len(stack) - 1)

\* What the walker observed at the statement just visited: the statement,
\* the state it was visited in, and the SPMD diagnostic it produced.
Obs(stmt, arg, d) == [stmt |-> stmt, arg |-> arg, inRegion |-> inSPMDFor \in ctxt, breakOk |-> breakOk \in ctxt, depth |-> globalSPMDInfo.varyingDepth, altered |-> globalSPMDInfo.maskAltered, code |-> d.code, msg |-> d.msg]

LeafName(s) == IF s.node = "BranchStmt" THEN s.tok ELSE s.node

Init ==
    /\ ctxt = {}
    /\ globalSPMDInfo = ZeroSPMDInfo
    /\ stack = <<>>
    /\ pending = "none"
    /\ last = [stmt |-> "start", arg |-> "none", inRegion |-> FALSE, breakOk |-> FALSE, depth |-> 0, altered |-> FALSE, code |-> "none", msg |-> "none"]
    /\ args = NoCall
    /\ result = NoCall
    /\ CheckersIdle

\* return, break, continue, goto, select, or a simple statement
VisitLeaf(s) ==
    /\ pending = "none"
    /\ LET r == handleSPMDStatement(s, ctxt, globalSPMDInfo)
       IN  /\ globalSPMDInfo' = r.info
           /\ last' = Obs(LeafName(s), "none", r.diag)
    /\ UNCHANGED <<ctxt, stack, pending>>
    /\ UNCHANGED <<callVars, checkerVars>>

\* label: statement.  When the handler lets it through, the labeled
\* statement itself is visited next, in the same context.
VisitLabeled(inner) ==
    /\ pending = "none"
    /\ LET r == handleSPMDStatement(Stmt("LabeledStmt", "none", FALSE, inner), ctxt, globalSPMDInfo)
       IN  /\ globalSPMDInfo' = r.info
           /\ last' = Obs("LabeledStmt", inner, r.diag)
           /\ pending' = IF ~r.handled /\ (IsForNode(inner) \/ IsSwitchNode(inner))
                         THEN inner
                         ELSE IF r.handled THEN "skipped" ELSE "none"
    /\ UNCHANGED <<ctxt, stack>>
    /\ UNCHANGED <<callVars, checkerVars>>

\* go for ... { with a well-formed header: rejected when nested, otherwise
\* the body is opened.  The body of a rejected go for is never handed to
\* the statement checker: the walker's position is then "skipped".
EnterGoFor ==
    /\ pending \in {"none", "GoForStmt"}
    /\ Len(stack) < MaxNest
    /\ handleSPMDStatement(Stmt("ForStmt", "none", TRUE, "none"), ctxt, globalSPMDInfo).call = "spmdForStmt"
    /\ LET r == spmdForStmt(ctxt, globalSPMDInfo)
       IN  /\ last' = Obs("GoForStmt", "ok", r.diag)
           /\ globalSPMDInfo' = r.info
           /\ ctxt' = r.inner
           /\ stack' = IF r.entered
                       THEN Append(stack, Frame("GoForStmt", ctxt, globalSPMDInfo, 0, FALSE))
                       ELSE stack
           /\ pending' = IF r.entered THEN "none" ELSE "skipped"
    /\ UNCHANGED <<callVars, checkerVars>>

\* go for with a header that fails to type-check (invalid range operand,
\* non-constant constraint, invalid condition): spmdForStmt returns early,
\* the body is not walked and the deferred restore runs.
AbortGoFor ==
    /\ pending \in {"none", "GoForStmt"}
    /\ handleSPMDStatement(Stmt("ForStmt", "none", TRUE, "none"), ctxt, globalSPMDInfo).call = "spmdForStmt"
    /\ LET r == spmdForStmt(ctxt, globalSPMDInfo)
       IN  /\ last' = Obs("GoForStmt", "bad", r.diag)
           /\ globalSPMDInfo' = IF r.entered
                                THEN spmdForStmt_defer(globalSPMDInfo, r.info)
                                ELSE r.info
    /\ pending' = "none"
    /\ UNCHANGED <<ctxt, stack>>
    /\ UNCHANGED <<callVars, checkerVars>>

\* for ... { (ordinary loop, inside or outside a region)
EnterFor ==
    /\ pending \in {"none", "ForStmt"}
    /\ Len(stack) < MaxNest
    /\ ~handleSPMDStatement(Stmt("ForStmt", "none", FALSE, "none"), ctxt, globalSPMDInfo).handled
    /\ last' = Obs("ForStmt", "none", NoDiag)
    /\ stack' = Append(stack, Frame("ForStmt", ctxt, ZeroSPMDInfo, 0, FALSE))
    /\ ctxt' = forStmtInner(ctxt)
    /\ pending' = "none"
    /\ UNCHANGED globalSPMDInfo
    /\ UNCHANGED <<callVars, checkerVars>>

\* if cond { inside a region
EnterIf(cond) ==
    /\ pending = "none"
    /\ Len(stack) < MaxNest
    /\ handleSPMDStatement(Stmt("IfStmt", "none", FALSE, "none"), ctxt, globalSPMDInfo).call = "spmdIfStmt"
    /\ LET r == spmdIfStmt(cond, ctxt, globalSPMDInfo)
       IN  /\ last' = Obs("IfStmt", cond, NoDiag)
           /\ globalSPMDInfo' = r.info
           /\ ctxt' = r.inner
           /\ stack' = Append(stack, [Frame("IfStmt", ctxt, ZeroSPMDInfo, 0, r.inc) EXCEPT !.varying = (cond = "varying")])
    /\ UNCHANGED pending
    /\ UNCHANGED <<callVars, checkerVars>>

\* } else { : the else branch is walked in the same context as the then
\* branch.
ElseBranch ==
    /\ pending = "none"
    /\ stack # <<>>
    /\ Top.kind = "IfStmt"
    /\ Top.branch = "body"
    /\ stack' = [stack EXCEPT ![Len(stack)].branch = "else"]
    /\ last' = Obs("else", "none", NoDiag)
    /\ UNCHANGED <<ctxt, globalSPMDInfo, pending>>
    /\ UNCHANGED <<callVars, checkerVars>>

\* switch tag { inside a region
EnterSwitch(tag) ==
    /\ pending \in {"none", "SwitchStmt"}
    /\ Len(stack) < MaxNest
    /\ handleSPMDStatement(Stmt("SwitchStmt", "none", FALSE, "none"), ctxt, globalSPMDInfo).call = "spmdSwitchStmt"
    /\ LET r == spmdSwitchStmt(tag, ctxt, globalSPMDInfo)
       IN  /\ last' = Obs("SwitchStmt", tag, NoDiag)
           /\ globalSPMDInfo' = r.info
           /\ ctxt' = r.inner
           /\ stack' = Append(stack, [Frame("SwitchStmt", ctxt, ZeroSPMDInfo, r.originalVaryingDepth, FALSE) EXCEPT !.varying = (tag = "varying")])
    /\ pending' = "none"
    /\ UNCHANGED <<callVars, checkerVars>>

\* switch x := y.(type) { inside a region: handed to the ordinary type
\* switch code with the context unchanged.
EnterTypeSwitch ==
    /\ pending \in {"none", "TypeSwitchStmt"}
    /\ Len(stack) < MaxNest
    /\ handleSPMDStatement(Stmt("SwitchStmt", "none", FALSE, "none"), ctxt, globalSPMDInfo).call = "spmdSwitchStmt"
    /\ last' = Obs("TypeSwitchStmt", "none", NoDiag)
    /\ stack' = Append(stack, Frame("TypeSwitchStmt", ctxt, ZeroSPMDInfo, 0, FALSE))
    /\ pending' = "none"
    /\ UNCHANGED <<ctxt, globalSPMDInfo>>
    /\ UNCHANGED <<callVars, checkerVars>>

\* } : leave the innermost open statement; its deferred function runs and
\* the caller continues with its own context.
Exit ==
    /\ pending = "none"
    /\ stack # <<>>
    /\ globalSPMDInfo' =
         CASE Top.kind = "GoForStmt" -> spmdForStmt_defer(Top.old, globalSPMDInfo)
           [] Top.kind = "IfStmt" -> spmdIfStmt_defer(Top.inc, globalSPMDInfo)
           [] Top.kind = "SwitchStmt" -> spmdSwitchStmt_defer(Top.orig, globalSPMDInfo)
           [] OTHER -> globalSPMDInfo
    /\ ctxt' = Top.ctxt
    /\ stack' = Pop
    /\ last' = Obs("exit", Top.kind, NoDiag)
    /\ UNCHANGED pending
    /\ UNCHANGED <<callVars, checkerVars>>

\* isInSPMDFunction: the signature of the function being checked has a
\* varying parameter.
isInSPMDFunction(params) ==
    \E i \in 1..Len(params) : params[i].spmd /\ IsVarying(params[i])

MsgIndexContext == "lanes.Index() can only be called in SPMD context"

validateLanesIndexContext_always(info, params) == NoDiag

validateLanesIndexContext(info, params) ==
    IF info.inSPMDLoop THEN NoDiag
    ELSE IF isInSPMDFunction(params) THEN NoDiag
    ELSE Diag("InvalidSPMDCall", MsgIndexContext)

\* validateSPMDFunctionCall on a call expression; fun is what is called.
validateSPMDFunctionCall(fun, info, params) ==
    IF ~ExperimentSPMD THEN NoDiag
    ELSE IF fun = "lanes.Index" THEN validateLanesIndexContext(info, params)
    ELSE NoDiag

\* Parameter lists of the function whose body is walked
CurrentParams == {<<>>, <<Regular("int32")>>, <<NewVarying("int32")>>, <<Regular("int32"), NewVarying("int32")>>}

\* an expression statement that calls fun, in a function with parameters
\* params
VisitCall(fun, params) ==
    /\ pending = "none"
    /\ last' = Obs(fun, IF isInSPMDFunction(params) THEN "varyingParams" ELSE "plainParams", validateSPMDFunctionCall(fun, globalSPMDInfo, params))
    /\ UNCHANGED <<ctxt, globalSPMDInfo, stack, pending>>
    /\ UNCHANGED <<callVars, checkerVars>>

\* A statement inside a statement the handler rejected (the body of a
\* nested go for, the statement under a rejected label): it is in the
\* source but the checker never visits it.
SkipStmt(s) ==
    /\ pending = "skipped"
    /\ last' = Obs("skipped", LeafName(s), NoDiag)
    /\ UNCHANGED <<ctxt, globalSPMDInfo, stack, pending>>
    /\ UNCHANGED <<callVars, checkerVars>>

\* The end of the rejected statement: checking goes on with the statement
\* that follows it.
Resume ==
    /\ pending = "skipped"
    /\ pending' = "none"
    /\ last' = Obs("resume", "none", NoDiag)
    /\ UNCHANGED <<ctxt, globalSPMDInfo, stack>>
    /\ UNCHANGED <<callVars, checkerVars>>

Next ==
    \/ \E s \in LeafStmts : VisitLeaf(s)
    \/ \E s \in LeafStmts : SkipStmt(s)
    \/ Resume
    \/ \E fun \in {"lanes.Index", "process"}, params \in CurrentParams : VisitCall(fun, params)
    \/ \E inner \in LabelTargets : VisitLabeled(inner)
    \/ EnterGoFor
    \/ AbortGoFor
    \/ EnterFor
    \/ \E cond \in Conds : EnterIf(cond)
    \/ ElseBranch
    \/ \E tag \in Tags : EnterSwitch(tag)
    \/ EnterTypeSwitch
    \/ Exit

Spec == Init /\ [][Next]_vars

TypeOK ==
    /\ ctxt \in StmtContexts
    /\ globalSPMDInfo \in SPMDControlFlowInfo
    /\ Len(stack) <= MaxNest
    /\ pending \in {"none", "skipped"} \cup LabelTargets

----------------------------------------------------------------------------
\* Properties

InRegionVisit(stmt) == last.stmt = stmt /\ last.inRegion

NoGoForOpen == \A i \in 1..Len(stack) : stack[i].kind # "GoForStmt"

\* C1: a return visited inside a go for region is accepted without an SPMD
\* diagnostic exactly when it is visited at varyingDepth = 0 with
\* maskAltered = FALSE; in every other state it gets InvalidSPMDReturn.
C1_ReturnLegality ==
    InRegionVisit("ReturnStmt") =>
        /\ (last.code = "none") <=> (last.depth = 0 /\ ~last.altered)
        /\ last.code \in {"none", "InvalidSPMDReturn"}

C1_Witness ==
    /\ InRegionVisit("ReturnStmt")
    /\ last.depth = 0
    /\ last.altered
    /\ last.code = "InvalidSPMDReturn"

\* C2: every break visited inside a go for region outside the state
\* (varyingDepth = 0, maskAltered = FALSE) gets InvalidSPMDBreak, wherever
\* it sits (region body, if, switch case, nested ordinary for) and whether
\* or not the go for is enclosed in an ordinary for.
C2_BreakLegality ==
    (InRegionVisit("Break") /\ ~(last.depth = 0 /\ ~last.altered)) =>
        last.code = "InvalidSPMDBreak"

\* C3: a continue visited inside a go for region never produces an SPMD
\* diagnostic, whatever the varying depth and the mask-altered flag.
C3_ContinueAlwaysLegal ==
    InRegionVisit("Continue") => last.code = "none"

C3_Witness ==
    /\ InRegionVisit("Continue")
    /\ last.depth > 0
    /\ last.altered

\* C4: while the walker stays in one region, maskAltered is TRUE after a
\* step exactly when it was TRUE before or the step visited a continue at
\* varyingDepth > 0; so it is set only by such a continue and never reset
\* before the region is left.
C4_MaskAlteredSticky ==
    [][(globalSPMDInfo.inSPMDLoop /\ globalSPMDInfo'.inSPMDLoop) =>
         (globalSPMDInfo'.maskAltered <=>
            (globalSPMDInfo.maskAltered
             \/ (last'.stmt = "Continue" /\ last'.inRegion /\ globalSPMDInfo.varyingDepth > 0)))]_vars

C4_Witness ==
    /\ globalSPMDInfo.inSPMDLoop
    /\ globalSPMDInfo.maskAltered
    /\ globalSPMDInfo.varyingDepth = 0
    /\ last.stmt = "Continue"
    /\ last.depth = 0
    /\ last.altered

C7_NestedGoForRejected ==
    /\ InRegionVisit("GoForStmt") => last.code = "InvalidNestedSPMDFor"
    /\ Cardinality({i \in 1..Len(stack) : stack[i].kind = "GoForStmt"}) <= 1

C7_Witness ==
    /\ InRegionVisit("GoForStmt")
    /\ last.code = "InvalidNestedSPMDFor"
    /\ last.depth > 0
    /\ last.altered
    /\ Len(stack) >= 3
    /\ Top.kind \in {"ForStmt", "TypeSwitchStmt"}

C9_SelectRejected ==
    last.stmt = "SelectStmt" =>
        IF last.inRegion THEN last.code = "InvalidSPMDSelect" ELSE last.code = "none"

C9_Witness ==
    /\ last.stmt = "SelectStmt"
    /\ ~last.inRegion
    /\ last.breakOk
    /\ last.code = "none"

\* C10: right after an accepted go for is entered the control-flow state is
\* (inSPMDLoop, varyingDepth, maskAltered) = (TRUE, 0, FALSE); whenever no
\* region is open the state is the one from before the region was entered
\* and no statement gets a control-flow diagnostic, so nothing a region did
\* to the state is seen by a later region or by code after it.
C10_RegionStateScoped ==
    /\ (last.stmt = "GoForStmt" /\ last.arg = "ok" /\ last.code = "none") =>
          /\ globalSPMDInfo.inSPMDLoop
          /\ globalSPMDInfo.varyingDepth = 0
          /\ ~globalSPMDInfo.maskAltered
    /\ NoGoForOpen =>
          /\ globalSPMDInfo = ZeroSPMDInfo
          /\ inSPMDFor \notin ctxt
    /\ ~last.inRegion => last.code \in {"none", "InvalidSPMDCall"}

C10_Witness ==
    /\ last.stmt = "exit"
    /\ last.arg = "GoForStmt"
    /\ last.altered
    /\ globalSPMDInfo = ZeroSPMDInfo
    /\ stack # <<>>

----------------------------------------------------------------------------
\* C11: an if whose condition is the uniform result of a reduction over a
\* varying value opens a uniform-conditioned scope.  Entering it leaves
\* varyingDepth and maskAltered as they were, and a return or break that is
\* the first statement inside it is accepted exactly when the if was
\* entered at varyingDepth = 0 with maskAltered = FALSE; when the if is
\* nested in a varying-conditioned if or follows a continue made under a
\* varying condition, the return or break gets an SPMD diagnostic.
C11_ReductionIfStep ==
    /\ (last'.stmt = "IfStmt" /\ last'.arg = "reduction" /\ last' # last)
           => globalSPMDInfo' = globalSPMDInfo
    /\ (last.stmt = "IfStmt" /\ last.arg = "reduction"
           /\ last'.stmt \in {"ReturnStmt", "Break"})
           => /\ last'.inRegion
              /\ (last'.code = "none") <=> (last.depth = 0 /\ ~last.altered)
              /\ last'.code \in {"none", "InvalidSPMDReturn", "InvalidSPMDBreak"}

----------------------------------------------------------------------------
\* Assignability and conversion of SPMD types

Ok == [ok |-> TRUE, cause |-> "none"]

No(cause) == [ok |-> FALSE, cause |-> cause]

CauseConstrained == "cannot assign constrained varying to unconstrained varying; use lanes.FromConstrained() for explicit conversion"

CauseVaryingToUniform == "cannot assign varying expression to uniform variable"

CauseVaryingToRegular == "cannot assign varying expression to non-SPMD variable"

\* checkSPMDtoSPMDAssignability: both types are SPMD types.
checkSPMDtoSPMDAssignability(vSPMD, tSPMD) ==
    LET elementsCompatible == Identical(Elem(vSPMD), Elem(tSPMD)) \/ convertibleToSPMDElement(Elem(vSPMD), Elem(tSPMD))
        sameQualifier == vSPMD.qualifier = tSPMD.qualifier
        rule2 == sameQualifier /\ elementsCompatible
        rule2Varying == rule2 /\ vSPMD.qualifier = VaryingQualifier
    IN  IF sameQualifier /\ vSPMD.constraint = tSPMD.constraint /\ Identical(Elem(vSPMD), Elem(tSPMD)) THEN Ok
        ELSE IF rule2Varying /\ vSPMD.constraint > 0 /\ tSPMD.constraint = 0 THEN Ok
        ELSE IF rule2Varying /\ vSPMD.constraint = -1 /\ tSPMD.constraint >= 0 THEN Ok
        ELSE IF rule2Varying /\ vSPMD.constraint > 0 /\ tSPMD.constraint = -1 THEN No(CauseConstrained)
        ELSE IF rule2 /\ vSPMD.constraint = tSPMD.constraint THEN Ok
        ELSE IF vSPMD.qualifier = UniformQualifier /\ tSPMD.qualifier = VaryingQualifier /\ elementsCompatible THEN Ok
        ELSE IF tSPMD.qualifier = VaryingQualifier /\ isEmptyInterface(Elem(tSPMD)) THEN Ok
        ELSE IF vSPMD.qualifier = UniformQualifier /\ tSPMD.qualifier = UniformQualifier /\ isEmptyInterface(Elem(tSPMD)) THEN Ok
        ELSE IF vSPMD.qualifier = VaryingQualifier /\ tSPMD.qualifier = UniformQualifier THEN No(CauseVaryingToUniform)
        ELSE No("incompatible SPMD types")

\* checkSPMDToRegularAssignability: SPMD source, ordinary destination.
checkSPMDToRegularAssignability_varyingUnboxed(vSPMD, T) ==
    IF isEmptyInterface(T) \/ Identical(Elem(vSPMD), T) THEN Ok
    ELSE IF vSPMD.qualifier = VaryingQualifier THEN No(CauseVaryingToRegular)
    ELSE No("incompatible SPMD to regular type assignment")

checkSPMDToRegularAssignability(vSPMD, T) ==
    IF isEmptyInterface(T) THEN Ok
    ELSE IF vSPMD.qualifier = UniformQualifier /\ Identical(Elem(vSPMD), T) THEN Ok
    ELSE IF vSPMD.qualifier = VaryingQualifier THEN No(CauseVaryingToRegular)
    ELSE No("incompatible SPMD to regular type assignment")

\* checkRegularToSPMDAssignability: ordinary source, SPMD destination.
checkRegularToSPMDAssignability_anyElement(V, tSPMD) == Ok

checkRegularToSPMDAssignability(V, tSPMD) ==
    IF tSPMD.qualifier = UniformQualifier /\ (Identical(V, Elem(tSPMD)) \/ ConvertibleTo(V, Elem(tSPMD))) THEN Ok
    ELSE IF tSPMD.qualifier = VaryingQualifier /\ (Identical(V, Elem(tSPMD)) \/ ConvertibleTo(V, Elem(tSPMD))) THEN Ok
    ELSE No("incompatible regular to SPMD type assignment")

\* checkPointerToSPMDAssignability: true only for pointer types, of which
\* the universe has none.
checkPointerToSPMDAssignability(V, T) == FALSE

\* handleSPMDAssignability(V, T): V is the source type, T the destination.
handleSPMDAssignability(V, T) ==
    IF ~ExperimentSPMD THEN [handled |-> FALSE, assignable |-> FALSE, cause |-> "none"]
    ELSE IF ~V.spmd /\ ~T.spmd
         THEN IF checkPointerToSPMDAssignability(V, T)
              THEN [handled |-> TRUE, assignable |-> TRUE, cause |-> "none"]
              ELSE [handled |-> FALSE, assignable |-> FALSE, cause |-> "none"]
    ELSE LET r == IF V.spmd /\ T.spmd THEN checkSPMDtoSPMDAssignability(V, T)
                  ELSE IF V.spmd THEN checkSPMDToRegularAssignability(V, T)
                  ELSE checkRegularToSPMDAssignability(V, T)
         IN  [handled |-> TRUE, assignable |-> r.ok, cause |-> r.cause]

\* isElementConvertible
isElementConvertible(sourceElem, targetElem) ==
    \/ Identical(sourceElem, targetElem)
    \/ isNumeric(sourceElem) /\ isNumeric(targetElem)
    \/ isInteger(sourceElem) /\ isString(targetElem)
    \/ isString(sourceElem) /\ isByte(targetElem)

\* convertibleToSPMD: x of type V converted to T.
convertibleToSPMD(V, T) ==
    IF ~ExperimentSPMD THEN FALSE
    ELSE IF ~V.spmd \/ ~T.spmd THEN FALSE
    ELSE IF V.qualifier = T.qualifier /\ isElementConvertible(Elem(V), Elem(T)) THEN TRUE
    ELSE IF V.qualifier = UniformQualifier /\ T.qualifier = VaryingQualifier /\ isElementConvertible(Elem(V), Elem(T)) THEN TRUE
    ELSE FALSE

\* CanAssignSPMD(dst, src)
CanAssignSPMD(dst, src) ==
    IF ~dst.spmd /\ ~src.spmd THEN Identical(dst, src)
    ELSE IF ~Identical(UnderlyingType(dst), UnderlyingType(src)) THEN FALSE
    ELSE IF dst.spmd /\ src.spmd THEN ~(IsUniform(dst) /\ IsVarying(src))
    ELSE IF dst.spmd /\ ~src.spmd THEN IsUniform(dst) \/ IsVarying(dst)
    ELSE IsUniform(src)

\* One call of each predicate on a pair of types of the universe.
TypePairs == [fn : {"types"}, V : Types, T : Types]

WalkerIdle ==
    /\ ctxt = {}
    /\ globalSPMDInfo = ZeroSPMDInfo
    /\ stack = <<>>
    /\ pending = "none"
    /\ last = [stmt |-> "start", arg |-> "none", inRegion |-> FALSE, breakOk |-> FALSE, depth |-> 0, altered |-> FALSE, code |-> "none", msg |-> "none"]

walkerVars == <<ctxt, globalSPMDInfo, stack, pending, last>>

AssignInit ==
    /\ WalkerIdle
    /\ args \in TypePairs
    /\ result = NoCall
    /\ CheckersIdle

CallIdentical ==
    /\ result = NoCall
    /\ result' = [fn |-> "Identical", ok |-> Identical(args.V, args.T), handled |-> handleSPMDTypeIdentical(args.V, args.T).handled, cause |-> "none"]
    /\ UNCHANGED <<args, walkerVars, checkerVars>>

CallAssignableTo ==
    /\ result = NoCall
    /\ LET r == handleSPMDAssignability(args.V, args.T)
       IN  result' = [fn |-> "assignableTo", ok |-> r.assignable, handled |-> r.handled, cause |-> r.cause]
    /\ UNCHANGED <<args, walkerVars, checkerVars>>

CallConvertibleToSPMD ==
    /\ result = NoCall
    /\ result' = [fn |-> "convertibleToSPMD", ok |-> convertibleToSPMD(args.V, args.T), handled |-> TRUE, cause |-> "none"]
    /\ UNCHANGED <<args, walkerVars, checkerVars>>

CallCanAssignSPMD ==
    /\ result = NoCall
    /\ result' = [fn |-> "CanAssignSPMD", ok |-> CanAssignSPMD(args.T, args.V), handled |-> TRUE, cause |-> "none"]
    /\ UNCHANGED <<args, walkerVars, checkerVars>>

AssignNext ==
    \/ CallIdentical
    \/ CallAssignableTo
    \/ CallConvertibleToSPMD
    \/ CallCanAssignSPMD

AssignSpec == AssignInit /\ [][AssignNext]_vars

Assigned == result.fn = "assignableTo"

\* C12: for every element type E, interface types included: Uniform(E) is
\* assignable to Varying(E); Varying(E) is not assignable to Uniform(E);
\* Varying(E,4) is identical to Varying(E,4); Varying(E,4) is assignable to
\* Varying(E,0); Varying(E,0) is not assignable to Varying(E,4).
C12_QualifierLattice ==
    \A E \in ElemNames :
        /\ (Assigned /\ args.V = NewUniform(E) /\ args.T = NewVarying(E)) => result.ok
        /\ (Assigned /\ args.V = NewVarying(E) /\ args.T = NewUniform(E)) => ~result.ok
        /\ (result.fn = "Identical" /\ args.V = NewVaryingConstrained(E, 4) /\ args.T = NewVaryingConstrained(E, 4)) => result.ok
        /\ (Assigned /\ args.V = NewVaryingConstrained(E, 4) /\ args.T = NewVaryingConstrained(E, 0)) => result.ok
        /\ (Assigned /\ args.V = NewVaryingConstrained(E, 0) /\ args.T = NewVaryingConstrained(E, 4)) => ~result.ok

C14_ConstraintAsymmetry ==
    (/\ result.fn \in {"assignableTo", "CanAssignSPMD"}
     /\ args.V.spmd /\ args.T.spmd
     /\ IsVarying(args.V) /\ IsVarying(args.T)
     /\ args.V.elem = args.T.elem) =>
        /\ (args.V.constraint = -1 /\ args.T.constraint >= 0) => result.ok
        /\ (args.V.constraint > 0 /\ args.T.constraint = 0) => result.ok
        /\ (args.V.constraint > 0 /\ args.T.constraint = -1) => ~result.ok

C16_ConvertibleLooserThanAssignable ==
    (/\ result.fn = "convertibleToSPMD"
     /\ args.V.spmd /\ args.T.spmd
     /\ handleSPMDAssignability(args.V, args.T).assignable) => result.ok

----------------------------------------------------------------------------
\* Capacity of varying types

\* int64 values are kept as four 16-bit limbs, least significant first, in
\* two's complement, so that products wrap as they do in the checker.
Limb == 65536

Int64(n) == <<n % Limb, (n \div Limb) % Limb, 0, 0>>

MinusOne64 == <<Limb - 1, Limb - 1, Limb - 1, Limb - 1>>

\* 2^60 and 2^61
Pow60 == <<0, 0, 0, 4096>>

Pow61 == <<0, 0, 0, 8192>>

IsNeg64(x) == x[4] >= Limb \div 2

IsZero64(x) == x = <<0, 0, 0, 0>>

\* x * s modulo 2^64, for 0 <= s < 2^14
Mul64(x, s) ==
    LET p1 == x[1] * s
        p2 == x[2] * s + (p1 \div Limb)
        p3 == x[3] * s + (p2 \div Limb)
        p4 == x[4] * s + (p3 \div Limb)
    IN  <<p1 % Limb, p2 % Limb, p3 % Limb, p4 % Limb>>

\* x > k as signed 64-bit integers, for 0 <= k < 2^16
Gt64(x, k) == ~IsNeg64(x) /\ (x[4] > 0 \/ x[3] > 0 \/ x[2] > 0 \/ x[1] > k)

\* Element types with their layout: basic types, an array and a slice.
SizedElems == {"bool", "byte", "int16", "int32", "int64", "int", "string", "[4]int32", "[]byte"}

\* calculateTypeSize and getTypeSize agree on every type of the universe.
RECURSIVE calculateTypeSize(_)
calculateTypeSize(t) ==
    CASE t \in {"bool", "byte"} -> 1
      [] t = "int16" -> 2
      [] t = "int32" -> 4
      [] t = "int64" -> 8
      [] t = "[4]int32" -> 4 * calculateTypeSize("int32")
      [] t = "[]byte" -> 24
      [] OTHER -> 8

getTypeSize(t) == calculateTypeSize(t)

\* A type is a chain of type constructors over a basic type, outermost
\* first: <<"Pointer", "Varying", "int">> is *lanes.Varying[int]. "Map" is
\* a map with a plain key, "MapVaryingKey" a map whose key is a varying
\* type; the chain continues with the map's element type.
MaxTypeDepth == 3

TypeCtors == {"Pointer", "Map", "MapVaryingKey", "Chan", "Array", "Slice", "Varying", "Uniform"}

RECURSIVE TypeChainsOver(_)
TypeChainsOver(n) ==
    IF n = 0 THEN {<<"int">>}
    ELSE LET inner == TypeChainsOver(n - 1)
         IN  inner \cup {<<c>> \o t : c \in TypeCtors, t \in inner}

TypeChains == TypeChainsOver(MaxTypeDepth)

TypeChain(name) ==
    CASE name = "[4]int32" -> <<"Array", "int32">>
      [] name = "[]byte" -> <<"Slice", "byte">>
      [] OTHER -> <<name>>

MsgVaryingMapKey == "varying map keys not supported"

\* validateSPMDTypeRestrictions: only a map with a varying key is refused;
\* every other constructor recurses into its element type.
RECURSIVE validateSPMDTypeRestrictions(_)
validateSPMDTypeRestrictions(typ) ==
    CASE Head(typ) = "Pointer" -> validateSPMDTypeRestrictions(Tail(typ))
      [] Head(typ) = "MapVaryingKey" -> MsgVaryingMapKey
      [] Head(typ) = "Map" -> validateSPMDTypeRestrictions(Tail(typ))
      [] Head(typ) = "Chan" -> validateSPMDTypeRestrictions(Tail(typ))
      [] Head(typ) = "Array" -> validateSPMDTypeRestrictions(Tail(typ))
      [] Head(typ) = "Slice" -> validateSPMDTypeRestrictions(Tail(typ))
      [] Head(typ) \in {"Varying", "Uniform"} -> validateSPMDTypeRestrictions(Tail(typ))
      [] OTHER -> ""

MsgArgCount == "lanes.Varying requires 1 or 2 type arguments"

MsgNotConstant == "lanes.Varying constraint must be a compile-time constant"

MsgNotInteger == "lanes.Varying constraint must be an integer constant"

MsgOutOfRange == "lanes.Varying constraint out of range"

MsgNegative == "lanes.Varying constraint must be non-negative"

MsgCapacity == "constrained varying capacity exceeded"

maxConstrainedCapacity == 64

\* Typ[Invalid] is returned with every diagnostic.
Invalid(code, msg) == [typ |-> Regular("invalid"), code |-> code, msg |-> msg]

Produced(typ) == [typ |-> typ, code |-> "none", msg |-> "none"]

\* processLanesVaryingType on lanes.Varying[elem] or lanes.Varying[elem, N]:
\* e.nargs type arguments, e.kind the kind of the second argument and e.val
\* its value.  The element size of an unconstrained type is recorded for the
\* lane count only while inSPMDLoop is set, which it is not when a
\* declaration outside every region is checked.
processLanesVaryingType(e) ==
    IF e.nargs < 1 \/ e.nargs > 2 THEN Invalid("InvalidSPMDType", MsgArgCount)
    ELSE IF validateSPMDTypeRestrictions(TypeChain(e.elem)) # "" THEN Invalid("InvalidSPMDType", validateSPMDTypeRestrictions(TypeChain(e.elem)))
    ELSE IF e.nargs = 1 THEN Produced(NewVaryingConstrained(e.elem, MinusOne64))
    ELSE IF e.kind = "variable" THEN Invalid("InvalidConstVal", MsgNotConstant)
    ELSE IF e.kind = "float" THEN Invalid("InvalidConstVal", MsgNotInteger)
    ELSE IF e.kind = "huge" THEN Invalid("InvalidConstVal", MsgOutOfRange)
    ELSE IF IsZero64(e.val) THEN Produced(NewVaryingConstrained(e.elem, e.val))
    ELSE IF IsNeg64(e.val) THEN Invalid("InvalidConstVal", MsgNegative)
    ELSE LET elementSize == calculateTypeSize(e.elem)
             totalSize == Mul64(e.val, elementSize)
         IN  IF Gt64(totalSize, maxConstrainedCapacity)
             THEN Invalid("InvalidConstVal", MsgCapacity)
             ELSE Produced(NewVaryingConstrained(e.elem, e.val))

simd128CapacityBytes == 16

defaultLaneCount == 4

\* calculateVaryingTypeCapacity, for a type with a small constraint
calculateVaryingTypeCapacity(spmdType) ==
    LET elementSize == getTypeSize(spmdType.elem)
    IN  IF IsConstrained(spmdType)
        THEN IF spmdType.constraint = 0
             THEN elementSize * defaultLaneCount
             ELSE elementSize * spmdType.constraint
        ELSE elementSize * defaultLaneCount

MsgParamCapacity == "SPMD function parameter capacity exceeded"

\* checkSPMDFunctionCapacity: the first varying parameter over the limit is
\* reported and the check stops.
checkSPMDFunctionCapacity(params) ==
    IF ~ExperimentSPMD THEN NoDiag
    ELSE IF \E i \in 1..Len(params) :
              /\ params[i].spmd
              /\ IsVarying(params[i])
              /\ calculateVaryingTypeCapacity(params[i]) > simd128CapacityBytes
         THEN Diag("InvalidSPMDFunction", MsgParamCapacity)
         ELSE NoDiag

\* Values of the constraint argument: negative, zero, small, at the limit,
\* and large enough for the product with the element size to pass 2^63.
ConstraintVals == {MinusOne64, Int64(0), Int64(1), Int64(2), Int64(4), Int64(8), Int64(16), Int64(32), Int64(64), Int64(65), Pow60, Pow61}

TypeExprs ==
    [fn : {"typeExpr"}, elem : SizedElems, nargs : {1, 3}, kind : {"const"}, val : {Int64(0)}]
      \cup [fn : {"typeExpr"}, elem : SizedElems, nargs : {2}, kind : {"variable", "float", "huge"}, val : {Int64(0)}]
      \cup [fn : {"typeExpr"}, elem : SizedElems, nargs : {2}, kind : {"const"}, val : ConstraintVals]

ParamTypes == {Regular("int64"), NewUniform("int64"), NewVarying("byte"), NewVarying("int32"), NewVarying("int64"), NewVarying("int"), NewVaryingConstrained("int32", 0), NewVaryingConstrained("int32", 4), NewVaryingConstrained("int64", 8), NewVaryingConstrained("int32", 32)}

ParamLists == {<<>>} \cup {<<a>> : a \in ParamTypes} \cup {<<a, b>> : a \in ParamTypes, b \in ParamTypes}

Signatures == [fn : {"signature"}, params : ParamLists]

CapacityInit ==
    /\ WalkerIdle
    /\ args \in TypeExprs \cup Signatures
    /\ result = NoCall
    /\ CheckersIdle

CallProcessLanesVaryingType ==
    /\ result = NoCall
    /\ args.fn = "typeExpr"
    /\ LET r == processLanesVaryingType(args)
       IN  result' = [fn |-> "processLanesVaryingType", typ |-> r.typ, code |-> r.code, msg |-> r.msg]
    /\ UNCHANGED <<args, walkerVars, checkerVars>>

CallCheckSPMDFunctionCapacity ==
    /\ result = NoCall
    /\ args.fn = "signature"
    /\ LET d == checkSPMDFunctionCapacity(args.params)
       IN  result' = [fn |-> "checkSPMDFunctionCapacity", code |-> d.code, msg |-> d.msg]
    /\ UNCHANGED <<args, walkerVars, checkerVars>>

CapacityNext ==
    \/ CallProcessLanesVaryingType
    \/ CallCheckSPMDFunctionCapacity

CapacitySpec == CapacityInit /\ [][CapacityNext]_vars

\* C17: a constrained varying type with constraint N > 0 and element size
\* s is accepted exactly when N * s <= 64; Varying(int32, 4), Varying(int64,
\* 2) and Varying(int64, 8) are accepted, Varying(int32, 32) is refused
\* with the capacity diagnostic and no type is produced.
C17_ConstrainedCapacity ==
    (/\ result.fn = "processLanesVaryingType"
     /\ args.nargs = 2
     /\ args.kind = "const"
     /\ ~IsNeg64(args.val) /\ ~IsZero64(args.val)) =>
        LET N == args.val
            fits == N[2] = 0 /\ N[3] = 0 /\ N[4] = 0 /\ N[1] * calculateTypeSize(args.elem) <= 64
        IN  /\ result.typ.spmd <=> fits
            /\ ~fits => (result.msg = MsgCapacity /\ result.typ.elem = "invalid")
            /\ fits => (result.code = "none" /\ result.typ.elem = args.elem /\ result.typ.constraint = N)

\* C18: a signature passes the parameter capacity check exactly when each
\* of its varying parameters fits on its own: ElementSize(elem) * lanes,
\* with lanes = floor(16 / ElementSize(elem)) (at least 1) for an
\* unconstrained parameter and lanes = N for a constrained one, must not
\* exceed 16 bytes (unconstrained) or 64 bytes (constrained); parameters of
\* type Varying(int32), Varying(int64) and Varying(int) pass.
C18_PerParameterCapacity ==
    result.fn = "checkSPMDFunctionCapacity" =>
        LET size(p) == getTypeSize(p.elem)
            natural(p) == IF 16 \div size(p) < 1 THEN 1 ELSE 16 \div size(p)
            fits(p) == IF p.constraint > 0
                       THEN size(p) * p.constraint <= 64
                       ELSE size(p) * natural(p) <= 16
        IN  (result.code = "none") <=>
                \A i \in 1..Len(args.params) :
                    (args.params[i].spmd /\ IsVarying(args.params[i])) => fits(args.params[i])

----------------------------------------------------------------------------
\* Function signature rules

\* Function names: none, lower case, ASCII upper case, and a name whose
\* first letter is the upper-case non-ASCII letter U+00C4.
FuncNames == {"", "process", "Process", "{U+00C4}rger"}

\* token.IsExported: the first letter is an upper-case Unicode letter.
IsExported(name) == name \in {"Process", "{U+00C4}rger"}

\* name[0] >= 'A' && name[0] <= 'Z', on the first byte of the name
FirstByteUpper(name) == name = "Process"

\* Packages by name and import path
Pkgs == {[name |-> "main", path |-> "main"], [name |-> "lanes", path |-> "lanes"], [name |-> "reduce", path |-> "reduce"], [name |-> "lanes", path |-> "example.com/x/lanes"]}

SigTypes == {Regular("int32"), NewUniform("int32"), NewVarying("int32")}

SigLists == {<<>>} \cup {<<a>> : a \in SigTypes} \cup {<<a, b>> : a \in SigTypes, b \in SigTypes}

\* Bound on the nesting depth of the statements of a function body.
MaxBodyDepth == 2

\* A body is absent (a declaration without body) or a chain of nested
\* statements, outermost first: path[i + 1] is a statement inside path[i].
BodyNodes == {"ExprStmt", "IfStmt", "FuncLit", "GoForStmt"}

NilBody == [nil |-> TRUE, path |-> <<>>]

Body(path) == [nil |-> FALSE, path |-> path]

Bodies == {NilBody} \cup UNION {{Body(p) : p \in [1..n -> BodyNodes]} : n \in 0..MaxBodyDepth}

FuncDecls == [fn : {"funcDecl"}, name : FuncNames, pkg : Pkgs, params : SigLists, results : SigLists, body : Bodies]

MsgPublicParams == "public functions cannot have varying parameters"

MsgPublicParamsExcept == "public functions cannot have varying parameters (except in lanes/reduce packages)"

MsgPublicReturn == "public functions cannot return varying types"

MsgGoForInSPMDFunction == "functions with varying parameters cannot contain go for loops"

hasSPMDParameters(params) ==
    \E i \in 1..Len(params) : params[i].spmd /\ params[i].qualifier = VaryingQualifier

\* syntax.Inspect visits every node of the body, whatever its depth.
hasGoForInSPMDFunction_topLevelOnly(body) ==
    Len(body.path) >= 1 /\ body.path[1] = "GoForStmt"

hasGoForInSPMDFunction(body) ==
    \E i \in 1..Len(body.path) : body.path[i] = "GoForStmt"

\* checkNoGoForInSPMDFunction: one diagnostic for each go for of the body
RECURSIVE checkNoGoForInSPMDFunction_from(_, _)
checkNoGoForInSPMDFunction_from(body, i) ==
    IF i > Len(body.path) THEN <<>>
    ELSE (IF body.path[i] = "GoForStmt"
          THEN <<Diag("InvalidSPMDFunction", MsgGoForInSPMDFunction)>>
          ELSE <<>>) \o checkNoGoForInSPMDFunction_from(body, i + 1)

checkNoGoForInSPMDFunction(body) == checkNoGoForInSPMDFunction_from(body, 1)

\* validateSPMDFunction: the diagnostics it reports, in order.
validateSPMDFunction(f) ==
    IF ~ExperimentSPMD \/ ~hasSPMDParameters(f.params) THEN <<>>
    ELSE (IF f.name # "" /\ IsExported(f.name) /\ f.pkg.path # "lanes" /\ f.pkg.path # "reduce"
          THEN <<Diag("InvalidSPMDFunction", MsgPublicParamsExcept)>>
          ELSE <<>>)
         \o (IF ~f.body.nil THEN checkNoGoForInSPMDFunction(f.body) ELSE <<>>)

\* validateSPMDFunctionSignature: the diagnostics it reports, in order.
validateSPMDFunctionSignature(f) ==
    LET hasVaryingParams == \E i \in 1..Len(f.params) : f.params[i].spmd /\ IsVarying(f.params[i])
        public == f.name # "" /\ FirstByteUpper(f.name)
        exempt == f.pkg.name = "lanes" \/ f.pkg.name = "reduce"
        rule1 == IF hasVaryingParams /\ public /\ ~exempt
                 THEN <<Diag("InvalidSPMDFunction", MsgPublicParams)>> ELSE <<>>
        rule2 == IF ~hasVaryingParams /\ public /\ ~exempt
                    /\ \E i \in 1..Len(f.results) : f.results[i].spmd /\ IsVarying(f.results[i])
                 THEN <<Diag("InvalidSPMDFunction", MsgPublicReturn)>> ELSE <<>>
        rule3 == IF hasVaryingParams /\ ~f.body.nil /\ hasGoForInSPMDFunction(f.body)
                 THEN <<Diag("InvalidSPMDFunction", MsgGoForInSPMDFunction)>> ELSE <<>>
    IN  IF ~ExperimentSPMD THEN <<>>
        ELSE IF rule2 # <<>> THEN rule1 \o rule2
        ELSE rule1 \o rule3

FuncInit ==
    /\ WalkerIdle
    /\ args \in FuncDecls
    /\ result = NoCall
    /\ CheckersIdle

CallValidateSPMDFunction ==
    /\ result = NoCall
    /\ result' = [fn |-> "validateSPMDFunction", diags |-> validateSPMDFunction(args)]
    /\ UNCHANGED <<args, walkerVars, checkerVars>>

CallValidateSPMDFunctionSignature ==
    /\ result = NoCall
    /\ result' = [fn |-> "validateSPMDFunctionSignature", diags |-> validateSPMDFunctionSignature(args)]
    /\ UNCHANGED <<args, walkerVars, checkerVars>>

FuncNext ==
    \/ CallValidateSPMDFunction
    \/ CallValidateSPMDFunctionSignature

FuncSpec == FuncInit /\ [][FuncNext]_vars

\* C19: for each of the two validators, a function with an exported name
\* and at least one varying parameter gets the InvalidSPMDFunction
\* diagnostic about varying parameters of public functions when its package
\* is not lanes or reduce, the same function in lanes or reduce gets no such
\* diagnostic, and a function whose name is not exported never gets it.
C19_ExportedVaryingParameter ==
    result.fn \in {"validateSPMDFunction", "validateSPMDFunctionSignature"} =>
        LET reported == \E i \in 1..Len(result.diags) :
                            /\ result.diags[i].code = "InvalidSPMDFunction"
                            /\ result.diags[i].msg \in {MsgPublicParams, MsgPublicParamsExcept}
            intrinsics == args.pkg.path \in {"lanes", "reduce"}
        IN  /\ (IsExported(args.name) /\ hasSPMDParameters(args.params) /\ ~intrinsics) => reported
            /\ intrinsics => ~reported
            /\ ~IsExported(args.name) => ~reported

\* C20: every exported function of a package other than lanes and reduce
\* whose result list holds a varying type gets the diagnostic "public
\* functions cannot return varying types", with or without varying
\* parameters.
C20_ExportedVaryingResult ==
    (/\ result.fn = "validateSPMDFunctionSignature"
     /\ IsExported(args.name)
     /\ args.pkg.path \notin {"lanes", "reduce"}
     /\ \E i \in 1..Len(args.results) : args.results[i].spmd /\ IsVarying(args.results[i])) =>
        \E i \in 1..Len(result.diags) :
            /\ result.diags[i].code = "InvalidSPMDFunction"
            /\ result.diags[i].msg = MsgPublicReturn

\* C21: for each of the two validators, a function with at least one
\* varying parameter gets the InvalidSPMDFunction diagnostic "functions
\* with varying parameters cannot contain go for loops" exactly when its
\* body holds a go for at some nesting depth, and a function without
\* varying parameters never gets it.
C21_NoGoForInVaryingFunction ==
    result.fn \in {"validateSPMDFunction", "validateSPMDFunctionSignature"} =>
        LET reported == \E i \in 1..Len(result.diags) :
                            /\ result.diags[i].code = "InvalidSPMDFunction"
                            /\ result.diags[i].msg = MsgGoForInSPMDFunction
            holdsGoFor == \E i \in 1..Len(args.body.path) : args.body.path[i] = "GoForStmt"
        IN  IF hasSPMDParameters(args.params)
            THEN reported <=> holdsGoFor
            ELSE ~reported

C21_Witness ==
    /\ result.fn = "validateSPMDFunctionSignature"
    /\ hasSPMDParameters(args.params)
    /\ args.body = Body(<<"IfStmt", "GoForStmt">>)
    /\ Len(result.diags) >= 1

IndexTypes == {Regular("int32"), NewUniform("int32"), NewVarying("int32")}

NoIndex == [kind |-> "none", Op |-> "none", X |-> Regular("invalid"), Y |-> Regular("invalid")]

\* Index expressions: a name (i), or a binary operation (i*4, i+4, i<<2).
IndexExprs ==
    {[kind |-> "Name", Op |-> "none", X |-> t, Y |-> Regular("invalid")] : t \in IndexTypes}
    \cup [kind : {"Operation"}, Op : {"Mul", "Add", "Shl"}, X : IndexTypes, Y : IndexTypes]

\* Operand expressions of &: v, s.f, (v), data[index].
OperandExprs ==
    [kind : {"Name", "SelectorExpr", "ParenExpr"}, Index : {NoIndex}]
    \cup [kind : {"IndexExpr"}, Index : IndexExprs]

OperandTypes == {Regular("int32"), NewUniform("int32"), NewVarying("int32"), NewVaryingConstrained("int32", 4)}

MsgAddressOfVarying == "cannot take address of varying variable"

MsgOutOfBounds == "potential out-of-bounds access with varying pointer"

PointerResult(handled, valid, errorMsg) == [handled |-> handled, valid |-> valid, errorMsg |-> errorMsg]

validateSPMDAddressOperation_indexUnchecked(xtyp, operandExpr) ==
    IF xtyp.spmd /\ xtyp.qualifier = VaryingQualifier /\ operandExpr.kind = "Name"
    THEN PointerResult(TRUE, FALSE, MsgAddressOfVarying)
    ELSE PointerResult(FALSE, FALSE, "")

validateSPMDAddressOperation(xtyp, operandExpr) ==
    IF xtyp.spmd /\ xtyp.qualifier = VaryingQualifier /\ operandExpr.kind = "Name"
    THEN PointerResult(TRUE, FALSE, MsgAddressOfVarying)
    ELSE IF /\ operandExpr.kind = "IndexExpr"
            /\ operandExpr.Index.kind = "Operation"
            /\ operandExpr.Index.Op = "Mul"
            /\ LET leftVarying  == operandExpr.Index.X.spmd /\ IsVarying(operandExpr.Index.X)
                   rightVarying == operandExpr.Index.Y.spmd /\ IsVarying(operandExpr.Index.Y)
               IN  leftVarying \/ rightVarying
    THEN PointerResult(TRUE, FALSE, MsgOutOfBounds)
    ELSE PointerResult(FALSE, FALSE, "")

validateSPMDPointerOperation(xtyp, op, operandExpr) ==
    IF ~ExperimentSPMD THEN PointerResult(FALSE, FALSE, "")
    ELSE IF op = "And" THEN validateSPMDAddressOperation(xtyp, operandExpr)
    ELSE PointerResult(FALSE, FALSE, "")

UnaryOps == {"And", "Mul", "Not"}

PointerArgs == [fn : {"unary"}, op : UnaryOps, x : OperandTypes, e : OperandExprs]

VarTypeArgs == [fn : {"varType"}, typ : TypeChains]

\* validVarTypeSPMD: handled when the restriction check reports an error or
\* the type itself is an SPMD type.
validVarTypeSPMD(typ) ==
    IF ~ExperimentSPMD THEN [handled |-> FALSE, code |-> "none", msg |-> "none"]
    ELSE IF validateSPMDTypeRestrictions(typ) # ""
    THEN [handled |-> TRUE, code |-> "InvalidSPMDType", msg |-> validateSPMDTypeRestrictions(typ)]
    ELSE [handled |-> Head(typ) \in {"Varying", "Uniform"}, code |-> "none", msg |-> "none"]

\* Expression typing on type chains.  Varying(elem) is NewVarying applied
\* to a whole type.
Qualifiers == {"Varying", "Uniform"}

Varying(elem) == <<"Varying">> \o elem

isVaryingOperand(typ) == Head(typ) = "Varying"

isVaryingType(typ) == Head(typ) = "Varying"

ArithmeticOps == {"Add", "Sub", "Mul", "Div", "Rem", "And", "Or", "Xor", "AndNot", "Shl", "Shr"}

ComparisonOps == {"Eql", "Neq", "Lss", "Leq", "Gtr", "Geq"}

LogicalOps == {"AndAnd", "OrOr"}

isArithmetic(op) == op \in ArithmeticOps

Classified(handled, typ) == [handled |-> handled, typ |-> typ]

\* handleSPMDComparison: x.typ becomes varying bool when an operand is
\* varying.
handleSPMDComparison(x, y, op) ==
    IF ~ExperimentSPMD THEN Classified(FALSE, x)
    ELSE IF ~isVaryingOperand(x) /\ ~isVaryingOperand(y) THEN Classified(FALSE, x)
    ELSE Classified(TRUE, Varying(<<"bool">>))

\* handleSPMDBinaryExpr: the element type is taken from the first varying
\* operand.
handleSPMDBinaryExpr(x, y, op) ==
    IF ~ExperimentSPMD THEN Classified(FALSE, x)
    ELSE IF ~isVaryingOperand(x) /\ ~isVaryingOperand(y) THEN Classified(FALSE, x)
    ELSE IF isArithmetic(op)
    THEN Classified(TRUE, Varying(IF isVaryingOperand(x) THEN Tail(x) ELSE Tail(y)))
    ELSE Classified(FALSE, x)

\* handleSPMDIndexing: x is the type of the indexed element.
handleSPMDIndexing(x, indexOperand) ==
    IF ~ExperimentSPMD THEN Classified(FALSE, x)
    ELSE IF isVaryingOperand(indexOperand) /\ ~isVaryingType(x)
    THEN Classified(TRUE, Varying(x))
    ELSE Classified(FALSE, x)

\* spmdRangeStmt, types of the declared iteration variables: the key is
\* varying int, the value is NewVarying of the type of the range operand.
spmdRangeStmt_key == Varying(<<"int">>)

spmdRangeStmt_value(exprTyp) == Varying(exprTyp)

\* processLanesVaryingType with one type argument, on a type chain.
processLanesVaryingElem(elem) ==
    IF validateSPMDTypeRestrictions(elem) # "" THEN Classified(FALSE, <<"invalid">>)
    ELSE Classified(TRUE, Varying(elem))

ExprTypes == {<<"int">>, <<"bool">>, <<"Uniform", "int">>, <<"Varying", "int">>, <<"Varying", "bool">>, <<"Slice", "int">>}

BinaryArgs == [fn : {"binary"}, op : ArithmeticOps \cup ComparisonOps \cup LogicalOps, x : ExprTypes, y : ExprTypes]

IndexArgs == [fn : {"index"}, x : ExprTypes, index : ExprTypes]

RangeArgs == [fn : {"range"}, x : ExprTypes]

ExprInit ==
    /\ WalkerIdle
    /\ args \in PointerArgs \cup VarTypeArgs \cup BinaryArgs \cup IndexArgs \cup RangeArgs
    /\ result = NoCall
    /\ CheckersIdle

CallValidVarTypeSPMD ==
    /\ result = NoCall
    /\ args.fn = "varType"
    /\ LET r == validVarTypeSPMD(args.typ)
       IN  result' = [fn |-> "validVarTypeSPMD", handled |-> r.handled, code |-> r.code, msg |-> r.msg]
    /\ UNCHANGED <<args, walkerVars, checkerVars>>

CallValidateSPMDPointerOperation ==
    /\ result = NoCall
    /\ args.fn = "unary"
    /\ LET r == validateSPMDPointerOperation(args.x, args.op, args.e)
       IN  result' = [fn |-> "validateSPMDPointerOperation", handled |-> r.handled, valid |-> r.valid, errorMsg |-> r.errorMsg]
    /\ UNCHANGED <<args, walkerVars, checkerVars>>

CallHandleSPMDComparison ==
    /\ result = NoCall
    /\ args.fn = "binary"
    /\ args.op \in ComparisonOps
    /\ LET r == handleSPMDComparison(args.x, args.y, args.op)
       IN  result' = [fn |-> "handleSPMDComparison", handled |-> r.handled, typ |-> r.typ]
    /\ UNCHANGED <<args, walkerVars, checkerVars>>

CallHandleSPMDBinaryExpr ==
    /\ result = NoCall
    /\ args.fn = "binary"
    /\ args.op \notin ComparisonOps
    /\ LET r == handleSPMDBinaryExpr(args.x, args.y, args.op)
       IN  result' = [fn |-> "handleSPMDBinaryExpr", handled |-> r.handled, typ |-> r.typ]
    /\ UNCHANGED <<args, walkerVars, checkerVars>>

CallHandleSPMDIndexing ==
    /\ result = NoCall
    /\ args.fn = "index"
    /\ LET r == handleSPMDIndexing(args.x, args.index)
       IN  result' = [fn |-> "handleSPMDIndexing", handled |-> r.handled, typ |-> r.typ]
    /\ UNCHANGED <<args, walkerVars, checkerVars>>

CallSpmdRangeStmt ==
    /\ result = NoCall
    /\ args.fn = "range"
    /\ result' = [fn |-> "spmdRangeStmt", handled |-> TRUE, typ |-> spmdRangeStmt_value(args.x), key |-> spmdRangeStmt_key]
    /\ UNCHANGED <<args, walkerVars, checkerVars>>

CallProcessLanesVaryingElem ==
    /\ result = NoCall
    /\ args.fn = "varType"
    /\ LET r == processLanesVaryingElem(args.typ)
       IN  result' = [fn |-> "processLanesVaryingType", handled |-> r.handled, typ |-> r.typ]
    /\ UNCHANGED <<args, walkerVars, checkerVars>>

ExprNext ==
    \/ CallValidateSPMDPointerOperation
    \/ CallValidVarTypeSPMD
    \/ CallHandleSPMDComparison
    \/ CallHandleSPMDBinaryExpr
    \/ CallHandleSPMDIndexing
    \/ CallSpmdRangeStmt
    \/ CallProcessLanesVaryingElem

ExprSpec == ExprInit /\ [][ExprNext]_vars

AddressTaken == result.fn = "validateSPMDPointerOperation" /\ args.op = "And"

Rejected == result.handled /\ ~result.valid

MsgPointerToVarying == "pointer to varying type not supported"

MsgArrayOfPointerToVarying == "array of pointers to varying not supported"

PointsToVarying(typ) == \E i \in 1..(Len(typ) - 1) : typ[i] = "Pointer" /\ typ[i + 1] = "Varying"

\* C24: a type expression that uses a varying type as a pointer target,
\* directly or inside an array, is rejected by the type-restriction check
\* with a pointer-to-varying-not-supported diagnostic.
C24_PointerToVaryingRejected ==
    (result.fn = "validVarTypeSPMD" /\ PointsToVarying(args.typ)) =>
        /\ result.code = "InvalidSPMDType"
        /\ result.msg \in {MsgPointerToVarying, MsgArrayOfPointerToVarying}

\* ---------------------------------------------------------------------
\* Two functions checked concurrently
\* ---------------------------------------------------------------------
\* Each checker walks its own function body: the statement context and the
\* open statements (with what their deferred functions captured) live on the
\* checker's own call stack.  globalSPMDInfo is the package-level variable
\* every checker reads and writes.  Next to each checker runs its solo
\* twin: the same walk over the same statements, on an SPMDControlFlowInfo
\* of its own, which is the walk the function gets when it is checked alone.

\* Statements open at one time, over both checkers
MaxConcOpen == 2

\* varyingDepth can drift without bound when restores interleave; visits are
\* followed while it stays within this distance of zero.
MaxConcDrift == 1

Checkers == {1, 2}

\* The statement forms the two function bodies are built from.
ConcLeafStmts == {Stmt("BranchStmt", "Break", FALSE, "none"), Stmt("BranchStmt", "Continue", FALSE, "none"), Stmt("ReturnStmt", "none", FALSE, "none")}

ConcConds == {"uniform", "varying"}

Local(c, st) == [ctxt |-> c, stack |-> st]

\* One statement visit as a function of the walker's local state and the
\* SPMDControlFlowInfo it works on: the new local state, the new info and
\* the SPMD diagnostic.
Walked(l, info, d) == [local |-> l, info |-> info, diag |-> d]

walkLeaf(s, l, info) ==
    LET r == handleSPMDStatement(s, l.ctxt, info)
    IN  Walked(l, r.info, r.diag)

walkGoFor(l, info) ==
    LET r == spmdForStmt(l.ctxt, info)
    IN  Walked(Local(r.inner, IF r.entered
                              THEN Append(l.stack, Frame("GoForStmt", l.ctxt, info, 0, FALSE))
                              ELSE l.stack),
               r.info, r.diag)

walkFor(l, info) ==
    Walked(Local(forStmtInner(l.ctxt), Append(l.stack, Frame("ForStmt", l.ctxt, ZeroSPMDInfo, 0, FALSE))), info, NoDiag)

walkIf(cond, l, info) ==
    LET r == spmdIfStmt(cond, l.ctxt, info)
    IN  Walked(Local(r.inner, Append(l.stack, Frame("IfStmt", l.ctxt, ZeroSPMDInfo, 0, r.inc))), r.info, NoDiag)

walkSwitch(tag, l, info) ==
    LET r == spmdSwitchStmt(tag, l.ctxt, info)
    IN  Walked(Local(r.inner, Append(l.stack, Frame("SwitchStmt", l.ctxt, ZeroSPMDInfo, r.originalVaryingDepth, FALSE))), r.info, NoDiag)

walkExit(l, info) ==
    LET top == l.stack[Len(l.stack)]
    IN  Walked(Local(top.ctxt, SubSeq(l.stack, 1, Len(l.stack) - 1)),
               CASE top.kind = "GoForStmt" -> spmdForStmt_defer(top.old, info)
                 [] top.kind = "IfStmt" -> spmdIfStmt_defer(top.inc, info)
                 [] top.kind = "SwitchStmt" -> spmdSwitchStmt_defer(top.orig, info)
                 [] OTHER -> info,
               NoDiag)

\* A checker at the start of a function body, and its solo twin.
NewChecker == [shared |-> Local({}, <<>>), solo |-> Local({}, <<>>), soloInfo |-> ZeroSPMDInfo]

ConcInit ==
    /\ WalkerIdle
    /\ args = NoCall
    /\ result = NoCall
    /\ checkers = <<NewChecker, NewChecker>>
    /\ observed = NoObserved

\* Checker k visits a statement: shared is its walk on globalSPMDInfo, solo
\* is the same visit of its twin.
Visit(k, stmt, shared, solo) ==
    /\ shared.info.varyingDepth \in -MaxConcDrift..MaxConcDrift
    /\ globalSPMDInfo' = shared.info
    /\ checkers' = [checkers EXCEPT ![k] = [shared |-> shared.local, solo |-> solo.local, soloInfo |-> solo.info]]
    /\ observed' = [checker |-> k, stmt |-> stmt, got |-> shared.diag.code, gotMsg |-> shared.diag.msg, alone |-> solo.diag.code, aloneMsg |-> solo.diag.msg]
    /\ UNCHANGED <<ctxt, stack, pending, last, callVars>>

OpenStatements == Len(checkers[1].shared.stack) + Len(checkers[2].shared.stack)

ConcVisitLeaf(k, s) ==
    Visit(k, LeafName(s), walkLeaf(s, checkers[k].shared, globalSPMDInfo), walkLeaf(s, checkers[k].solo, checkers[k].soloInfo))

ConcEnterGoFor(k) ==
    /\ OpenStatements < MaxConcOpen
    /\ Visit(k, "GoForStmt", walkGoFor(checkers[k].shared, globalSPMDInfo), walkGoFor(checkers[k].solo, checkers[k].soloInfo))

ConcEnterFor(k) ==
    /\ OpenStatements < MaxConcOpen
    /\ Visit(k, "ForStmt", walkFor(checkers[k].shared, globalSPMDInfo), walkFor(checkers[k].solo, checkers[k].soloInfo))

ConcEnterIf(k, cond) ==
    /\ OpenStatements < MaxConcOpen
    /\ inSPMDFor \in checkers[k].shared.ctxt
    /\ Visit(k, "IfStmt", walkIf(cond, checkers[k].shared, globalSPMDInfo), walkIf(cond, checkers[k].solo, checkers[k].soloInfo))

ConcEnterSwitch(k, tag) ==
    /\ OpenStatements < MaxConcOpen
    /\ inSPMDFor \in checkers[k].shared.ctxt
    /\ Visit(k, "SwitchStmt", walkSwitch(tag, checkers[k].shared, globalSPMDInfo), walkSwitch(tag, checkers[k].solo, checkers[k].soloInfo))

ConcExit(k) ==
    /\ checkers[k].shared.stack # <<>>
    /\ Visit(k, "exit", walkExit(checkers[k].shared, globalSPMDInfo), walkExit(checkers[k].solo, checkers[k].soloInfo))

ConcNext ==
    \E k \in Checkers :
        \/ \E s \in ConcLeafStmts : ConcVisitLeaf(k, s)
        \/ ConcEnterGoFor(k)
        \/ ConcEnterFor(k)
        \/ \E cond \in ConcConds : ConcEnterIf(k, cond)
        \/ \E tag \in ConcConds : ConcEnterSwitch(k, tag)
        \/ ConcExit(k)

ConcSpec == ConcInit /\ [][ConcNext]_vars

\* C25: the control-flow state is function-local: with the statement
\* visits of two concurrently checked functions interleaved in any order,
\* each function receives exactly the diagnostics it receives when it is
\* checked alone.
C25_FunctionLocalState ==
    observed.checker \in Checkers =>
        /\ observed.got = observed.alone
        /\ observed.gotMsg = observed.aloneMsg

\* The if and switch statements open around the current statement whose
\* condition or tag has a varying type.
EnclosingVarying == {i \in 1..Len(stack) : stack[i].kind \in {"IfStmt", "SwitchStmt"} /\ stack[i].varying}

\* C27: inside a go for region varyingDepth is the number of enclosing if
\* and expression switch statements with a varying condition or tag, in
\* either branch and in every case body; so it is never negative, a
\* uniform condition leaves it alone, leaving a statement restores it, and
\* it is 0 once the region has been walked.
C27_VaryingDepthCountsEnclosing ==
    /\ globalSPMDInfo.varyingDepth = Cardinality(EnclosingVarying)
    /\ NoGoForOpen => globalSPMDInfo.varyingDepth = 0

C27_Witness ==
    /\ last.stmt = "exit"
    /\ last.arg = "SwitchStmt"
    /\ last.depth = 2
    /\ globalSPMDInfo.varyingDepth = 1
    /\ Top.kind = "IfStmt"
    /\ Top.branch = "else"

\* A qualified type whose element type is itself a qualified type
Nested(typ) == \E i \in 1..(Len(typ) - 1) : typ[i] \in Qualifiers /\ typ[i + 1] \in Qualifiers

\* C28: no qualified type produced from well-formed inputs by a type
\* expression, the go for range-variable typing, a binary operator or a
\* varying index has a qualified element type; indexing with a varying
\* index gives a singly wrapped varying type whether the element is plain,
\* uniform or already varying.
C28_NoNestedQualification ==
    /\ (result.fn = "processLanesVaryingType" /\ result.handled /\ ~Nested(args.typ)) => ~Nested(result.typ)
    /\ (result.fn = "spmdRangeStmt" /\ ~Nested(args.x)) => (~Nested(result.typ) /\ ~Nested(result.key))
    /\ (result.fn \in {"handleSPMDBinaryExpr", "handleSPMDComparison"} /\ result.handled) => ~Nested(result.typ)
    /\ (result.fn = "handleSPMDIndexing" /\ isVaryingOperand(args.index)) =>
           (isVaryingType(result.typ) /\ ~Nested(result.typ))

\* C29: every binary operator (arithmetic, bitwise, shift, comparison,
\* logical) with at least one varying operand is handled by the SPMD
\* classifier and gets a varying result type, varying bool for a
\* comparison; with no varying operand the expression is left to the
\* ordinary rules.
C29_BinaryWithVaryingIsVarying ==
    result.fn \in {"handleSPMDBinaryExpr", "handleSPMDComparison"} =>
        IF isVaryingOperand(args.x) \/ isVaryingOperand(args.y)
        THEN /\ result.handled
             /\ isVaryingType(result.typ)
             /\ args.op \in ComparisonOps => result.typ = Varying(<<"bool">>)
        ELSE ~result.handled

AlwaysIllegal == {"Goto", "SelectStmt"}

\* C30: checking continues after every SPMD control-flow diagnostic: each
\* statement of a region that violates a legality rule gets its own
\* diagnostic, also after earlier diagnostics and also when it lies in
\* the body of a rejected nested go for or under a rejected label.  Stated
\* for goto and select, which are illegal in every state of a region.
C30_EveryViolationDiagnosed ==
    (/\ last.inRegion
     /\ \/ last.stmt \in AlwaysIllegal
        \/ last.stmt = "skipped" /\ last.arg \in AlwaysIllegal)
        => last.code \in {"InvalidSPMDGoto", "InvalidSPMDSelect"}

====
